---- MODULE Spec2Model ----
(***************************************************************************)
(* Model of modelfactors.py (BSC basicanalysis): acquisition of the raw    *)
(* counters (gather_raw_data), classification of the campaign as weak or   *)
(* strong scaling (get_scaling_type) and the computation of the thirteen   *)
(* model factors (compute_model_factors).                                  *)
(*                                                                         *)
(* Python numbers are modelled as IEEE-754 binary64 values: a finite       *)
(* non-negative double is a 53-bit mantissa m, held in limbs of 14 bits    *)
(* (least significant first), and an exponent e, with value m * 2^e.       *)
(* Division, multiplication, addition and subtraction are correctly        *)
(* rounded (round-half-to-even) as the hardware does them.  Counters are   *)
(* non-negative and far from overflow and underflow, so signs, infinities  *)
(* and subnormals do not occur.                                            *)
(***************************************************************************)
EXTENDS Integers, Sequences, FiniteSets, TLC

(***************************************************************************)
(* Mantissa arithmetic: a natural number below 2^70 is five limbs of 14    *)
(* bits, <<l0, l1, l2, l3, l4>> with value l0 + l1*B + ... + l4*B^4.       *)
(***************************************************************************)
B == 2 ^ 14              \* the limb base
MZero == <<0, 0, 0, 0, 0>>
MOne == <<1, 0, 0, 0, 0>>
L(m, i) == IF i \in 1..5 THEN m[i] ELSE 0

\* carry propagation over five columns, the carry out of the top dropped
Canon(c) ==
    LET k1 == c[1] \div B
        k2 == (c[2] + k1) \div B
        k3 == (c[3] + k2) \div B
        k4 == (c[4] + k3) \div B
    IN <<c[1] % B, (c[2] + k1) % B, (c[3] + k2) % B, (c[4] + k3) % B,
         (c[5] + k4) % B>>

MAdd(a, b) == Canon([i \in 1..5 |-> a[i] + b[i]])
\* a - b for a >= b: a plus the complement of b plus one
MSub(a, b) == Canon([i \in 1..5 |-> a[i] + (B - 1 - b[i]) + (IF i = 1 THEN 1 ELSE 0)])
MulSmall(a, t) == Canon([i \in 1..5 |-> a[i] * t])
MOdd(m) == m[1] % 2 = 1
MGe(a, b) ==
    LET D == {i \in 1..5 : a[i] # b[i]}
    IN D = {} \/ (LET top == CHOOSE i \in D : \A j \in D : j <= i
                  IN a[top] > b[top])

\* m * 2^n, which must stay below 2^70
ShiftLeft(m, n) ==
    LET j == n \div 14
        s == n % 14
    IN [i \in 1..5 |-> ((L(m, i - j) * 2 ^ s) % B) + (L(m, i - j - 1) \div 2 ^ (14 - s))]

\* <<floor(m / 2^n), whether a one was shifted out>>
ShiftRight(m, n) ==
    IF n >= 70 THEN <<MZero, m # MZero>>
    ELSE LET j == n \div 14
             s == n % 14
         IN <<[i \in 1..5 |-> (L(m, i + j) \div 2 ^ s) + ((L(m, i + j + 1) % 2 ^ s) * 2 ^ (14 - s))],
              (\E i \in 1..j : m[i] # 0) \/ (L(m, j + 1) % 2 ^ s # 0)>>

\* number of significant bits of m # 0
MBitLen(m) ==
    LET top == CHOOSE i \in 1..5 : m[i] # 0 /\ \A j \in (i + 1)..5 : m[j] = 0
        len == CHOOSE l \in 1..14 : 2 ^ (l - 1) <= m[top] /\ m[top] < 2 ^ l
    IN 14 * (top - 1) + len

(***************************************************************************)
(* Python values.  t = "num": a finite double; t = "nan": the float nan    *)
(* (what float('NaN') returns); t = "str": the string 'NaN' the program    *)
(* stores as its missing marker; t = "ZeroDivisionError" or "TypeError":   *)
(* the exception the evaluation of an expression raised.                   *)
(***************************************************************************)
Num(m, e) == [t |-> "num", m |-> m, e |-> e]
Tag(k) == [t |-> k, m |-> MZero, e |-> 0]
FZero == Num(MZero, 0)
FNan == Tag("nan")
NaNStr == Tag("str")
ZeroDivisionError == Tag("ZeroDivisionError")
TypeError == Tag("TypeError")
IsNum(x) == x.t = "num"
IsZero(x) == x.t = "num" /\ x.m = MZero
IsExc(x) == x.t \in {"ZeroDivisionError", "TypeError"}

(***************************************************************************)
(* Rounding of an exact value (m + fraction) * 2^e, where sticky says the  *)
(* fraction is non-zero, to the nearest double, ties to even: m is brought *)
(* to 54 bits, the lowest of which is the rounding bit.                    *)
(***************************************************************************)
TwoP53 == ShiftLeft(MOne, 53)
\* r * 2^(e + 1), where the rounding may have carried r up to 2^53
Pack(r, e) ==
    IF r = TwoP53 THEN Num(ShiftRight(r, 1)[1], e + 2) ELSE Num(r, e + 1)
\* h: the upper 53 bits; half: the rounding bit; st: a one below it
RoundUp(h, half, st, e) ==
    Pack(IF half /\ (st \/ MOdd(h)) THEN MAdd(h, MOne) ELSE h, e)
\* sh: <<the 54-bit mantissa, whether a one was shifted out of it>>
RoundShifted(sh, sticky, e) ==
    RoundUp(ShiftRight(sh[1], 1)[1], MOdd(sh[1]), sticky \/ sh[2], e)
Round(m, e, sticky, len) ==
    RoundShifted(IF len >= 54 THEN ShiftRight(m, len - 54)
                              ELSE <<ShiftLeft(m, 54 - len), FALSE>>,
                 sticky, e + len - 54)
Normalize(m, e, sticky) ==
    IF m = MZero THEN FZero ELSE Round(m, e, sticky, MBitLen(m))

\* float(n) for an integer 0 <= n < 2^28
IntToF(n) == Normalize(<<n % B, n \div B, 0, 0, 0>>, 0, FALSE)

\* One digit of long division in base B: the digit t = floor(r * B / d) and
\* the remainder, for r < d and d of 56 bits.  The digit is at most est, the
\* quotient of the leading limbs, and at least est minus three.
DivRemainder(R, d, t) == <<t, MSub(R, MulSmall(d, t))>>
DivCorrect(R, d, est) ==
    DivRemainder(R, d, CHOOSE c \in (IF est > 3 THEN est - 3 ELSE 0)..est :
                          /\ MGe(R, MulSmall(d, c))
                          /\ ~MGe(MSub(R, MulSmall(d, c)), d))
DivEstimate(q) == IF q > B - 1 THEN B - 1 ELSE q
DivDigit(r, d) ==
    DivCorrect(<<0, r[1], r[2], r[3], r[4]>>, d,
               DivEstimate((r[4] * B + r[3]) \div d[4]))

\* the quotient digits found so far (q) and the remainder (r)
DivStart(a8, d8) ==
    IF MGe(a8, d8) THEN [q |-> MOne, r |-> MSub(a8, d8)]
                   ELSE [q |-> MZero, r |-> a8]
DivPush(q, digit) ==
    [q |-> <<digit[1], q[1], q[2], q[3], q[4]>>, r |-> digit[2]]
DivNext(s, d8) == DivPush(s.q, DivDigit(s.r, d8))
DivRound(s, e) == Normalize(s.q, e, s.r # MZero)

\* a / b for finite doubles a > 0, b > 0: floor(ma * 2^56 / mb) by long
\* division (a leading digit 0 or 1, then four digits in base B)
DivMantissa(a8, d8, e) ==
    DivRound(DivNext(DivNext(DivNext(DivNext(DivStart(a8, d8), d8), d8), d8), d8), e)
FDiv(a, b) == DivMantissa(ShiftLeft(a.m, 3), ShiftLeft(b.m, 3), a.e - b.e - 56)

\* a + b for finite doubles a >= 0, b >= 0, with three guard bits;
\* sh: the smaller mantissa aligned, and whether a one was shifted out
AddAligned(big, sh) == Normalize(MAdd(ShiftLeft(big.m, 3), sh[1]), big.e - 3, sh[2])
AddOrdered(big, sml) ==
    AddAligned(big, ShiftRight(ShiftLeft(sml.m, 3), big.e - sml.e))
FAdd(a, b) ==
    IF IsZero(a) THEN b
    ELSE IF IsZero(b) THEN a
    ELSE IF a.e >= b.e THEN AddOrdered(a, b) ELSE AddOrdered(b, a)

\* a >= b for finite doubles a >= 0, b >= 0
FGe(a, b) ==
    IF IsZero(b) THEN TRUE
    ELSE IF IsZero(a) THEN FALSE
    ELSE a.e > b.e \/ (a.e = b.e /\ MGe(a.m, b.m))

FGt(a, b) == FGe(a, b) /\ a # b

\* a - b for finite doubles a >= b >= 0, with three guard bits
SubBorrow(d, e, sticky) == Normalize(IF sticky THEN MSub(d, MOne) ELSE d, e, sticky)
SubAligned(a, sh) == SubBorrow(MSub(ShiftLeft(a.m, 3), sh[1]), a.e - 3, sh[2])
FSub(a, b) ==
    IF IsZero(b) THEN a
    ELSE SubAligned(a, ShiftRight(ShiftLeft(b.m, 3), a.e - b.e))

\* a * b for finite doubles a >= 0, b >= 0: the 106-bit product of the
\* mantissas by columns, of which the upper five limbs are kept
FMul(a, b) ==
    IF IsZero(a) \/ IsZero(b) THEN FZero
    ELSE LET x == a.m
             y == b.m
             c1 == x[1] * y[1]
             c2 == x[1] * y[2] + x[2] * y[1] + c1 \div B
             c3 == x[1] * y[3] + x[2] * y[2] + x[3] * y[1] + c2 \div B
             c4 == x[1] * y[4] + x[2] * y[3] + x[3] * y[2] + x[4] * y[1] + c3 \div B
             c5 == x[2] * y[4] + x[3] * y[3] + x[4] * y[2] + c4 \div B
             c6 == x[3] * y[4] + x[4] * y[3] + c5 \div B
             c7 == x[4] * y[4] + c6 \div B
             c8 == c7 \div B
         IN Normalize(<<c4 % B, c5 % B, c6 % B, c7 % B, c8>>, a.e + b.e + 42,
                      c1 % B # 0 \/ c2 % B # 0 \/ c3 % B # 0)

(***************************************************************************)
(* Python's operators on these values.  An operand that is the string      *)
(* 'NaN' makes / and * raise TypeError; a zero divisor raises              *)
(* ZeroDivisionError (also when the dividend is nan); nan propagates.  An  *)
(* exception raised by an operand propagates through the expression.       *)
(***************************************************************************)
PyFloat(v) == IF v.t = "str" THEN FNan ELSE v

PyDiv(a, b) ==
    IF IsExc(a) THEN a
    ELSE IF IsExc(b) THEN b
    ELSE IF a.t = "str" \/ b.t = "str" THEN TypeError
    ELSE IF IsZero(b) THEN ZeroDivisionError
    ELSE IF a.t = "nan" \/ b.t = "nan" THEN FNan
    ELSE IF IsZero(a) THEN FZero
    ELSE FDiv(a, b)

PyMul(a, b) ==
    IF IsExc(a) THEN a
    ELSE IF IsExc(b) THEN b
    ELSE IF a.t = "str" \/ b.t = "str" THEN TypeError
    ELSE IF a.t = "nan" \/ b.t = "nan" THEN FNan
    ELSE FMul(a, b)

PyAdd(a, b) == IF a.t = "nan" \/ b.t = "nan" THEN FNan ELSE FAdd(a, b)
PySub(a, b) == IF a.t = "nan" \/ b.t = "nan" THEN FNan ELSE FSub(a, b)
PyGt(a, b) == a.t = "num" /\ b.t = "num" /\ FGt(a, b)

F1 == IntToF(1)
F100 == IntToF(100)
F1000 == IntToF(1000)

(***************************************************************************)
(* The two tables of the program.                                          *)
(***************************************************************************)
raw_data_doc == <<"runtime", "runtime_dim", "useful_avg", "useful_max",
                  "useful_tot", "useful_dim", "useful_ins", "useful_cyc">>
mod_factors_doc == <<"parallel_eff", "load_balance", "comm_eff", "serial_eff",
                     "transfer_eff", "comp_scale", "global_eff", "ipc_scale",
                     "inst_scale", "freq_scale", "speedup", "ipc", "freq">>
RawKeys == {raw_data_doc[i] : i \in 1..Len(raw_data_doc)}
ModKeys == {mod_factors_doc[i] : i \in 1..Len(mod_factors_doc)}
Range(seq) == {seq[i] : i \in 1..Len(seq)}

\* every raw field starts as the integer 0
create_raw_data(tl) == [key \in RawKeys |-> [t \in Range(tl) |-> FZero]]
\* every model factor starts as 0.0
create_mod_factors(tl) == [key \in ModKeys |-> [t \in Range(tl) |-> FZero]]

(***************************************************************************)
(* get_scaling_type                                                        *)
(***************************************************************************)
eps == FDiv(IntToF(9), IntToF(10))      \* the double written 0.9

\* One iteration of the loop, from the accumulated normalized_inst_ratio
\* and the number of divisions started so far.  An exception ends the loop.
AddTerm(p, term) ==
    IF IsExc(term) THEN [sum |-> term, divs |-> p.divs + 3]
    ELSE [sum |-> PyAdd(p.sum, term), divs |-> p.divs + 3]
Accumulate(p, inst_ratio, proc_ratio) ==
    IF IsExc(inst_ratio) THEN [sum |-> inst_ratio, divs |-> p.divs + 1]
    ELSE AddTerm(p, PyDiv(inst_ratio, proc_ratio))
InstRatioStep(p, raw, tl, tp, i) ==
    IF IsExc(p.sum) THEN p
    ELSE Accumulate(p,
                    PyDiv(PyFloat(raw["useful_ins"][tl[i]]),
                          PyFloat(raw["useful_ins"][tl[1]])),
                    PyDiv(IntToF(tp[tl[i]]), IntToF(tp[tl[1]])))

\* The loop over trace_list[1..i]: the accumulated normalized_inst_ratio, or
\* the exception that ended the loop, and the number of divisions started.
RECURSIVE InstRatioSum(_, _, _, _)
InstRatioSum(raw, tl, tp, i) ==
    IF i = 0 THEN [sum |-> FZero, divs |-> 0]
    ELSE InstRatioStep(InstRatioSum(raw, tl, tp, i - 1), raw, tl, tp, i)

\* the average taken over all the runs, the reference included
ScalingComputedAllRuns(sum, n) ==
    LET normalized_inst_ratio == PyDiv(sum, IntToF(n))
    IN IF PyGt(normalized_inst_ratio, eps) THEN "weak" ELSE "strong"

\* the average over the runs but the first, compared with eps
ScalingComputed(sum, n) ==
    LET normalized_inst_ratio == PyDiv(PySub(sum, F1), IntToF(n - 1))
    IN IF PyGt(normalized_inst_ratio, eps) THEN "weak" ELSE "strong"

\* cmdl_args.scaling applied to the computed classification
ScalingChosen(scaling_computed, mode) ==
    IF mode = "auto" THEN scaling_computed ELSE mode

\* the part of get_scaling_type after the loop; s: what the loop left
Classify(s, n, mode) ==
    IF IsExc(s.sum) THEN [res |-> s.sum.t, divs |-> s.divs]
    ELSE [res |-> ScalingChosen(ScalingComputed(s.sum, n), mode), divs |-> s.divs + 1]

\* get_scaling_type without the early return for a single trace
get_scaling_type_loop_only(raw, tl, tp, mode) ==
    Classify(InstRatioSum(raw, tl, tp, Len(tl)), Len(tl), mode)

\* res: the value returned, or the exception raised; divs: divisions started
get_scaling_type(raw, tl, tp, mode) ==
    IF Len(tl) = 1 THEN [res |-> "strong", divs |-> 0]
    ELSE Classify(InstRatioSum(raw, tl, tp, Len(tl)), Len(tl), mode)

(***************************************************************************)
(* compute_model_factors.  Each factor is assigned in its own try block,   *)
(* whose bare except stores the string 'NaN'; the operators below are the  *)
(* expressions of the try blocks, in the order of the code, and later      *)
(* blocks read the table mf the earlier ones wrote.                        *)
(***************************************************************************)
\* an except clause that leaves the initial 0.0 in the table
TryKeepInitial(x) == IF IsExc(x) THEN FZero ELSE x

Try(x) == IF IsExc(x) THEN NaNStr ELSE x

ProcRatio(tp, ref, trace) == PyDiv(IntToF(tp[trace]), IntToF(tp[ref]))

\* the weak-scaling branch dividing by proc_ratio
ScaledDivided(x, scaling, proc_ratio) ==
    IF scaling = "strong" THEN x ELSE PyDiv(x, proc_ratio)

\* the factor of the weak-scaling branch of comp_scale, inst_scale, speedup
Scaled(x, scaling, proc_ratio) ==
    IF scaling = "strong" THEN x ELSE PyMul(x, proc_ratio)

load_balance(raw, trace) ==
    PyMul(PyDiv(raw["useful_avg"][trace], raw["useful_max"][trace]), F100)

comm_eff(raw, trace) ==
    PyMul(PyDiv(raw["useful_max"][trace], raw["runtime"][trace]), F100)

serial_eff(raw, trace) ==
    PyMul(PyDiv(raw["useful_dim"][trace], raw["runtime_dim"][trace]), F100)

\* transfer_eff as serial_eff over comm_eff
transfer_eff_inverted(mf, trace) ==
    PyMul(PyDiv(mf["serial_eff"][trace], mf["comm_eff"][trace]), F100)

transfer_eff(mf, trace) ==
    PyMul(PyDiv(mf["comm_eff"][trace], mf["serial_eff"][trace]), F100)

parallel_eff(mf, trace) ==
    PyDiv(PyMul(mf["load_balance"][trace], mf["comm_eff"][trace]), F100)

comp_scale(raw, ref, trace, scaling, proc_ratio) ==
    PyMul(Scaled(PyDiv(raw["useful_tot"][ref], raw["useful_tot"][trace]),
                 scaling, proc_ratio), F100)

global_eff(mf, trace) ==
    PyDiv(PyMul(mf["parallel_eff"][trace], mf["comp_scale"][trace]), F100)

\* ipc with a missing cycle count read as zero instructions per cycle
ipc_defaulting(raw, trace) ==
    IF raw["useful_cyc"][trace] = NaNStr THEN FZero
    ELSE PyDiv(PyFloat(raw["useful_ins"][trace]), PyFloat(raw["useful_cyc"][trace]))

ipc(raw, trace) ==
    PyDiv(PyFloat(raw["useful_ins"][trace]), PyFloat(raw["useful_cyc"][trace]))

ipc_scale(mf, ref, trace) ==
    PyMul(PyDiv(mf["ipc"][trace], mf["ipc"][ref]), F100)

freq(raw, trace) ==
    PyDiv(PyDiv(PyFloat(raw["useful_cyc"][trace]), PyFloat(raw["useful_tot"][trace])),
          F1000)

\* freq_scale normalised by the run's own freq instead of the reference's
freq_scale_own(mf, ref, trace) ==
    PyMul(PyDiv(mf["freq"][trace], mf["freq"][trace]), F100)

freq_scale(mf, ref, trace) ==
    PyMul(PyDiv(mf["freq"][trace], mf["freq"][ref]), F100)

inst_scale(raw, ref, trace, scaling, proc_ratio) ==
    PyMul(Scaled(PyDiv(PyFloat(raw["useful_ins"][ref]), PyFloat(raw["useful_ins"][trace])),
                 scaling, proc_ratio), F100)

\* speedup with the reference run set to one without a division
speedup_reference_one(raw, ref, trace, scaling, proc_ratio) ==
    IF trace = ref THEN F1
    ELSE Scaled(PyDiv(raw["runtime"][ref], raw["runtime"][trace]), scaling, proc_ratio)

speedup(raw, ref, trace, scaling, proc_ratio) ==
    Scaled(PyDiv(raw["runtime"][ref], raw["runtime"][trace]), scaling, proc_ratio)

\* the assignment of one try block: the value of the expression, or 'NaN'
Assign(mf, key, trace, x) == [mf EXCEPT ![key][trace] = Try(x)]

\* the thirteen try blocks in the order of the code, each applied to the
\* table the previous one left
TryBlocks(mf, raw, ref, trace, scaling, proc_ratio) ==
    LET B1(m)  == Assign(m, "load_balance", trace, load_balance(raw, trace))
        B2(m)  == Assign(m, "comm_eff", trace, comm_eff(raw, trace))
        B3(m)  == Assign(m, "serial_eff", trace, serial_eff(raw, trace))
        B4(m)  == Assign(m, "transfer_eff", trace, transfer_eff(m, trace))
        B5(m)  == Assign(m, "parallel_eff", trace, parallel_eff(m, trace))
        B6(m)  == Assign(m, "comp_scale", trace,
                         comp_scale(raw, ref, trace, scaling, proc_ratio))
        B7(m)  == Assign(m, "global_eff", trace, global_eff(m, trace))
        B8(m)  == Assign(m, "ipc", trace, ipc(raw, trace))
        B9(m)  == Assign(m, "ipc_scale", trace, ipc_scale(m, ref, trace))
        B10(m) == Assign(m, "freq", trace, freq(raw, trace))
        B11(m) == Assign(m, "freq_scale", trace, freq_scale(m, ref, trace))
        B12(m) == Assign(m, "inst_scale", trace,
                         inst_scale(raw, ref, trace, scaling, proc_ratio))
        B13(m) == Assign(m, "speedup", trace,
                         speedup(raw, ref, trace, scaling, proc_ratio))
    IN B13(B12(B11(B10(B9(B8(B7(B6(B5(B4(B3(B2(B1(mf)))))))))))))

\* one iteration of the loop over the traces
ComputeTrace(mf, raw, tl, tp, scaling, trace) ==
    TryBlocks(mf, raw, tl[1], trace, scaling, ProcRatio(tp, tl[1], trace))

\* the loop over trace_list[1..i], starting from the table create_mod_factors made
RECURSIVE ModFactorsLoop(_, _, _, _, _)
ModFactorsLoop(raw, tl, tp, scaling, i) ==
    IF i = 0 THEN create_mod_factors(tl)
    ELSE ComputeTrace(ModFactorsLoop(raw, tl, tp, scaling, i - 1), raw, tl, tp, scaling, tl[i])


(***************************************************************************)
(* Text.  A piece of text the program writes or reads is either a number   *)
(* in fixed notation, held as its digits without the point (a natural      *)
(* number in limbs) and the number of digits after the point, or a word.   *)
(***************************************************************************)
Word(s) == [s |-> s, digits |-> MZero, places |-> 0]
Fixed(digits, places) == [s |-> "", digits |-> digits, places |-> places]
\* the text of a natural number below 2^28 with its last places digits
\* after the point
Literal(n, places) == Fixed(<<n % B, n \div B, 0, 0, 0>>, places)

\* the integer nearest to m * 2^e, ties to even
FixedUp(h, half, st) == IF half /\ (st \/ MOdd(h)) THEN MAdd(h, MOne) ELSE h
FixedRound(sh) == FixedUp(ShiftRight(sh[1], 1)[1], MOdd(sh[1]), sh[2])
FixedDigits(m, e) ==
    IF e >= 0 THEN ShiftLeft(m, e) ELSE FixedRound(ShiftRight(m, -e - 1))

\* '{0:.<places>f}'.format(x) for a finite double x: x * 10^places is
\* (x.m * 5^places) * 2^(x.e + places), rounded to the nearest integer
format_f(x, places) ==
    Fixed(FixedDigits(MulSmall(x.m, 5 ^ places), x.e + places), places)

\* try: '{0:.<places>f}'.format(value); except ValueError: '{}'.format(value).
\* The format code f is unknown for the string 'NaN' (ValueError), and the
\* float nan is formatted as nan.
FormatCell(value, places) ==
    IF value.t = "str" THEN Word("NaN")
    ELSE IF value.t = "nan" THEN Word("nan")
    ELSE format_f(value, places)

\* float(text): the double nearest to the decimal number; nan for the words
\* NaN and nan
float(text) ==
    IF text.s # "" THEN FNan
    ELSE IF text.digits = MZero THEN FZero
    ELSE FDiv(Normalize(text.digits, 0, FALSE), IntToF(10 ^ text.places))

(***************************************************************************)
(* Names.  A command-line argument or a trace is a file name stem.ext; a   *)
(* run read from a csv file is named by the text of its process count      *)
(* (ext empty).                                                            *)
(***************************************************************************)
Name(stem, ext) == [stem |-> stem, ext |-> ext]
fnmatch(x, pattern) ==
    IF pattern = "*.prv" THEN x.ext \in {"prv", "sim.prv"}
    ELSE x.ext = "sim.prv"

\* sorted(s, key=...): a stable sort, by insertion from the left
InsertSorted(s, x, key) ==
    LET k == Cardinality({i \in 1..Len(s) : key[s[i]] <= key[x]})
    IN SubSeq(s, 1, k) \o <<x>> \o SubSeq(s, k + 1, Len(s))
RECURSIVE sorted(_, _)
sorted(s, key) ==
    IF s = <<>> THEN s
    ELSE InsertSorted(sorted(SubSeq(s, 1, Len(s) - 1), key), s[Len(s)], key)

\* the value get_traces_from_args gives trace_list
TracesOfArgs(args, row) ==
    sorted(SelectSeq(args, LAMBDA x : fnmatch(x, "*.prv") /\ ~fnmatch(x, "*.sim.prv")), row)

(***************************************************************************)
(* modelfactors.csv: the header line with the process counts, the thirteen *)
(* lines of the factors and, behind a line '#', the eight lines of the raw *)
(* data, each a label and one cell per run.  valid: the path names a file  *)
(* that ends in .csv.                                                      *)
(***************************************************************************)
NoFile ==
    [valid |-> FALSE, header |-> <<>>, factors |-> <<>>, raw |-> <<>>]

CsvLine(label, table, tl, places) ==
    [label |-> label, cells |-> [i \in 1..Len(tl) |-> FormatCell(table[tl[i]], places)]]

\* the file print_mod_factors_csv writes
print_mod_factors_csv(mf, tl, tp, raw) ==
    [valid   |-> TRUE,
     header  |-> [i \in 1..Len(tl) |-> tp[tl[i]]],
     factors |-> [k \in 1..Len(mod_factors_doc) |->
                    CsvLine(mod_factors_doc[k], mf[mod_factors_doc[k]], tl, 6)],
     raw     |-> [k \in 1..Len(raw_data_doc) |->
                    CsvLine(raw_data_doc[k], raw[raw_data_doc[k]], tl, 2)]]

\* What read_mod_factors_csv returns for a file.  The runs are named by the
\* texts of the header; the table is a dictionary over these names, so of
\* two columns with the same header the later one is the one kept.
CsvTraceList(file) == [i \in 1..Len(file.header) |-> Name(file.header[i], "")]
CsvTraceProcesses(file) ==
    [t \in Range(CsvTraceList(file)) |-> t.stem]
LastColumn(tl, t) == CHOOSE i \in 1..Len(tl) : tl[i] = t /\ \A j \in (i + 1)..Len(tl) : tl[j] # t
CsvModFactors(file, tl) ==
    [key \in ModKeys |->
        [t \in Range(tl) |->
            float(file.factors[CHOOSE k \in 1..Len(mod_factors_doc) :
                                   mod_factors_doc[k] = key].cells[LastColumn(tl, t)])]]

(***************************************************************************)
(* compute_projection.  The curve fitting is SciPy's; of a call of         *)
(* curve_fit the program sees that it returns the two parameters x0 and f  *)
(* or raises an exception.  The parameters returned are taken from a few   *)
(* doubles with at most two decimals.                                      *)
(***************************************************************************)
Models == {"amdahl", "pipe", "linear"}
\* the five calls of curve_fit, in their order
Fits == <<"para", "load", "comm", "comp", "glob">>
FitKey == [para |-> "parallel_eff", load |-> "load_balance", comm |-> "comm_eff",
           comp |-> "comp_scale", glob |-> "global_eff"]

\* op applied to the values of a and b
Apply(op(_, _), a, b) == CHOOSE r \in {op(x, y) : x \in {a}, y \in {b}} : TRUE

F2 == IntToF(2)
amdahl(x, x0, f) == Apply(FDiv, x0, Apply(FAdd, f, Apply(FMul, Apply(FSub, F1, f), x)))
pipe(x, x0, f) ==
    Apply(FDiv, Apply(FMul, x0, x),
          Apply(FAdd, Apply(FSub, F1, f),
                Apply(FMul, f, Apply(FSub, Apply(FMul, F2, x), F1))))
linear(x, x0, f) == Apply(FAdd, x0, Apply(FMul, f, x))
ModelValue(model, x, p) ==
    CASE model = "amdahl" -> amdahl(x, p[1], p[2])
      [] model = "pipe"   -> pipe(x, p[1], p[2])
      [] model = "linear" -> linear(x, p[1], p[2])

\* str() of a double: the shortest decimal text that reads back as the
\* same double, here among the texts with one or two decimals
str_float(v) ==
    IF v.t = "nan" THEN Word("nan")
    ELSE IF float(format_f(v, 1)) = v THEN format_f(v, 1)
    ELSE format_f(v, 2)

\* numpy array element assignment: the value converted to a double
ArrayOf(table, tl) == [i \in 1..Len(tl) |-> PyFloat(table[tl[i]])]

\* limit = cmdl_args.limit or '10000'
DefaultLimit == Literal(10000, 0)
LimitOf(limit) == IF limit = Word("None") THEN DefaultLimit ELSE limit

\* the definition of a gnuplot function: a fitted curve
\*     name( x ) = ( x > from ) ? <model with x0 and f> : 1/0
\* or the product of two functions
\*     name( x ) = left( x ) * right( x ) / 100
\* the parameters <<x0, f>> a call of curve_fit may return
Dec(n, places) == float(Literal(n, places))
FitParams == {<<Dec(1000, 1), Dec(5, 1)>>, <<Dec(905, 1), Dec(25, 2)>>,
              <<Dec(1000, 1), Dec(10, 1)>>}
\* str(opt[0]) and str(opt[1]) of each of them
StrOfParams == [p \in FitParams |-> <<str_float(p[1]), str_float(p[2])>>]

\* the guard of every fitted curve at the left end of the xrange
FittedFromStart(model, from, p) ==
    [kind |-> "fitted", model |-> model, from |-> Literal(1, 0),
     x0 |-> StrOfParams[p][1], f |-> StrOfParams[p][2], left |-> "", right |-> ""]

Fitted(model, from, p) ==
    [kind |-> "fitted", model |-> model, from |-> from,
     x0 |-> StrOfParams[p][1], f |-> StrOfParams[p][2], left |-> "", right |-> ""]
Composed(left, right) ==
    [kind |-> "product", model |-> "", from |-> Word(""),
     x0 |-> Word(""), f |-> Word(""), left |-> left, right |-> right]

\* para and glob fitted like the other three, from para_opt and glob_opt
GpFunctionsAllFitted(model, from, opt) ==
    [name \in Range(Fits) |-> Fitted(model, from, opt[name])]

\* para_fit, load_fit, comm_fit, comp_fit, glob_fit; from: str(x_proc[0])
GpFunctions(model, from, opt) ==
    [name \in Range(Fits) |->
        CASE name = "para" -> Composed("load", "comm")
          [] name = "glob" -> Composed("para", "comp")
          [] OTHER         -> Fitted(model, from, opt[name])]

NoScript == [exists |-> FALSE, xrange |-> <<>>, functions |-> <<>>, data |-> <<>>]
\* the arrays x_proc and y_para, y_load, y_comm, y_comp, y_glob
XProc(tl, tp) == [i \in 1..Len(tl) |-> IntToF(tp[tl[i]])]
YOf(mf, tl) == [name \in Range(Fits) |-> ArrayOf(mf[FitKey[name]], tl)]
\* the data points of the five factors: str(x_proc[index]) and the value
\* that str(y[index]) is the text of
GpData(x_proc, y) ==
    [i \in 1..Len(Fits) |->
        [x |-> [j \in 1..Len(x_proc) |-> str_float(x_proc[j])], y |-> y[Fits[i]]]]
\* modelfactors.gp: the template with its xrange and its five functions
\* filled in, followed by the data points
GpScript(limit, functions, data) ==
    [exists    |-> TRUE,
     xrange    |-> <<Literal(1, 0), LimitOf(limit)>>,
     functions |-> functions,
     data      |-> data]

\* What the five calls of curve_fit leave: exc, the exception one of them
\* raised ("" if none did); done, the number of calls that returned; opt,
\* the parameters <<x0, f>> each of these returned.
NoFit == [exc |-> "", done |-> 0, opt |-> <<>>]
DefaultOpt == [name \in Range(Fits) |-> <<Dec(1000, 1), Dec(5, 1)>>]
FitResults ==
    {DefaultOpt} \cup {[DefaultOpt EXCEPT ![name] = p] : name \in Range(Fits), p \in FitParams}
SolverExceptions == {"TypeError", "ValueError"}
\* the outcomes of the five calls for the arrays x_proc, y (one array per
\* call), sigma and the bounds
curve_fit(model, x_proc, y, sigma, bounds) ==
    {[exc |-> "", done |-> Len(Fits), opt |-> o] : o \in FitResults}
    \cup {[exc |-> e, done |-> k - 1,
           opt |-> [name \in {Fits[i] : i \in 1..(k - 1)} |-> DefaultOpt[name]]] :
             e \in SolverExceptions, k \in 1..Len(Fits)}

\* str(x_proc[0]) after the fits raises IndexError for no run, and so does
\* sigma[0] = 0.1 before them
Indexed(r, n) ==
    IF r.exc = "" /\ n = 0 THEN [r EXCEPT !.exc = "IndexError"] ELSE r
SigmaRaises(sigma, n) == sigma = "first" /\ n = 0
SigmaOf(sigma, n) ==
         [i \in 1..n |->
            CASE sigma = "first" -> IF i = 1 THEN Dec(1, 1) ELSE F1
              [] sigma = "equal" -> F1
              [] sigma = "decrease" ->
                    IF n = 1 THEN F1 ELSE Apply(FAdd, F1, Apply(FDiv, IntToF(i - 1), IntToF(n - 1)))]

\* the script opened for writing before the fits
PlotScriptOpenedFirst(old, r, script) ==
    IF r.exc # "" THEN [old EXCEPT !.exists = TRUE, !.functions = <<>>] ELSE script

\* the script is written after the five fits and the five formulas
PlotScript(old, r, script) ==
    IF r.exc # "" THEN old ELSE script
(***************************************************************************)
(* gather_raw_data: one iteration of the loop over the traces.  What the   *)
(* external tools leave behind for a trace is its environment: whether     *)
(* prv2dim wrote the .dim file (dim), whether Dimemas wrote the simulated  *)
(* trace (sim), which stats files paramedir wrote (files), which raw       *)
(* fields have their Total/Average/Maximum line in their stats file        *)
(* (lines) and the number on that line (number).  The numbers are whole,   *)
(* so float() and int(float()) of the text agree.                          *)
(***************************************************************************)
StatsFiles == {"timings", "runtime", "cycles", "instructions",
               "sim.timings", "sim.runtime"}
FileOf == [runtime     |-> "runtime",     runtime_dim |-> "sim.runtime",
           useful_avg  |-> "timings",     useful_max  |-> "timings",
           useful_tot  |-> "timings",     useful_dim  |-> "sim.timings",
           useful_ins  |-> "instructions", useful_cyc |-> "cycles"]

\* the value create_ideal_trace returns
create_ideal_trace(e) ==
    IF ~e.dim THEN "None"
    ELSE IF ~e.sim THEN ""
    ELSE "sim.prv"

\* One stats file parsed into one field: the file missing stores 'NaN', a
\* matching line stores its number, no matching line leaves the field alone.
ParseField(old, exists, has_line, number) ==
    IF ~exists THEN NaNStr
    ELSE IF ~has_line THEN old
    ELSE IntToF(number)

\* The stats files found for a trace whose create_ideal_trace returned ts.
\* paramedir runs on the simulated trace only if there is one; if one of
\* its two stats files is missing, trace_sim is reset to '' and neither is
\* looked for again.
FilesFound(e, ts) ==
    LET simfiles == {"sim.timings", "sim.runtime"}
    IN IF ts = "sim.prv" /\ simfiles \subseteq e.files
       THEN e.files
       ELSE e.files \ simfiles

GatherTrace(raw, e, trace) ==
    LET found == FilesFound(e, create_ideal_trace(e))
    IN [key \in RawKeys |->
          [raw[key] EXCEPT ![trace] =
              ParseField(raw[key][trace], FileOf[key] \in found,
                         key \in e.lines, e.number[key])]]

(***************************************************************************)
(* The program: the main control flow.                                     *)
(***************************************************************************)
VARIABLES
    trace_list,         \* the traces, in ascending order of processes
    trace_processes,    \* number of processes of each trace
    cmdl_scaling,       \* cmdl_args.scaling
    env,                \* what the external tools produce for each trace
    raw_data,
    mod_factors,
    scaling,            \* what get_scaling_type returned
    divisions,          \* divisions get_scaling_type started
    pc,                 \* the stage the program is in
    idx,                \* position of the running loop in trace_list
    err,                \* the uncaught exception and the function it left
    cmdl_args,          \* cmdl_args.trace_list and whether --project is given
    row,                \* the process count in the .row file of each trace
    csv_file,           \* modelfactors.csv
    gp_file,            \* modelfactors.gp
    fit,                \* what the calls of curve_fit gave compute_projection
    out                 \* what the program printed from its tables on, and its errors

vars == <<trace_list, trace_processes, cmdl_scaling, env, raw_data,
          mod_factors, scaling, divisions, pc, idx, err,
          cmdl_args, row, csv_file, gp_file, fit, out>>

inputs == <<trace_list, trace_processes, cmdl_scaling, env>>
\* what the stages from gather_raw_data to compute_model_factors leave alone
outputs == <<cmdl_args, row, csv_file, gp_file, fit, out>>

NoError == [exc |-> "", raised_in |-> ""]

\* One iteration of the loop of gather_raw_data.  A None returned by
\* create_ideal_trace is subscripted (trace_sim[:-4]) and raises TypeError.
GatherRawData ==
    /\ pc = "gather"
    /\ LET trace == trace_list[idx]
       IN IF create_ideal_trace(env[trace]) = "None"
          THEN /\ pc' = "aborted"
               /\ err' = [exc |-> "TypeError", raised_in |-> "gather_raw_data"]
               /\ UNCHANGED <<raw_data, idx>>
          ELSE /\ raw_data' = GatherTrace(raw_data, env[trace], trace)
               /\ IF idx = Len(trace_list)
                  THEN pc' = "classify" /\ idx' = 1
                  ELSE pc' = pc /\ idx' = idx + 1
               /\ err' = err
    /\ UNCHANGED <<inputs, outputs, mod_factors, scaling, divisions>>

\* compute_model_factors up to its loop: create_mod_factors and the call of
\* get_scaling_type, whose exception nobody catches.
GetScalingType ==
    /\ pc = "classify"
    /\ LET r == get_scaling_type(raw_data, trace_list, trace_processes, cmdl_scaling)
       IN /\ divisions' = r.divs
          /\ IF r.res \in {"weak", "strong"}
             THEN scaling' = r.res /\ pc' = "factors" /\ err' = err
             ELSE /\ scaling' = scaling
                  /\ pc' = "aborted"
                  /\ err' = [exc |-> r.res, raised_in |-> "get_scaling_type"]
    /\ mod_factors' = create_mod_factors(trace_list)
    /\ UNCHANGED <<inputs, outputs, raw_data, idx>>

\* One iteration of the loop of compute_model_factors.
ComputeModelFactors ==
    /\ pc = "factors"
    /\ mod_factors' = ComputeTrace(mod_factors, raw_data, trace_list,
                                   trace_processes, scaling, trace_list[idx])
    /\ IF idx = Len(trace_list)
       THEN pc' = "computed" /\ idx' = 1
       ELSE pc' = pc /\ idx' = idx + 1
    /\ UNCHANGED <<inputs, outputs, raw_data, scaling, divisions, err>>

Next == GatherRawData \/ GetScalingType \/ ComputeModelFactors

(***************************************************************************)
(* The campaigns explored.  Process counts come from a few ascending       *)
(* ladders (get_traces_from_args sorts the traces by process count), cut   *)
(* to the number of runs.  The counters are those of a measured two-run    *)
(* campaign; a campaign either varies the instruction counts of its runs   *)
(* or has one fault in the acquisition of one run.                         *)
(***************************************************************************)
MaxRuns == 3
Modes == {"auto", "weak", "strong"}
InsValues == {5, 6}
Measured == <<1, 4, 16, 64, 256>>
Ladders == {<<1, 1, 2, 4, 8>>, <<5, 6, 6, 6, 12>>, <<9, 10, 12, 15, 20>>,
            <<10, 11, 12, 13, 14>>}

\* the numbers on the stats lines of the i-th run of the measured campaign
Base(i) ==
    IF i = 1
    THEN [runtime |-> 100, runtime_dim |-> 90, useful_avg |-> 90, useful_max |-> 90,
          useful_tot |-> 90, useful_dim |-> 90, useful_ins |-> 1000, useful_cyc |-> 2000]
    ELSE [runtime |-> 30, runtime_dim |-> 26, useful_avg |-> 80, useful_max |-> 85,
          useful_tot |-> 85, useful_dim |-> 85, useful_ins |-> 1050, useful_cyc |-> 2100]

\* the faults of the acquisition of one run
Faults ==
    {[kind |-> "no_dim", what |-> ""], [kind |-> "no_sim", what |-> ""]}
    \cup {[kind |-> "no_file", what |-> f] : f \in StatsFiles}
    \cup {[kind |-> k, what |-> key] : k \in {"no_line", "zero"}, key \in RawKeys}

GoodEnv(number) ==
    [dim |-> TRUE, sim |-> TRUE, files |-> StatsFiles, lines |-> RawKeys,
     number |-> number]

FaultyEnv(number, f) ==
    [dim    |-> f.kind # "no_dim",
     sim    |-> f.kind # "no_sim",
     files  |-> IF f.kind = "no_file" THEN StatsFiles \ {f.what} ELSE StatsFiles,
     lines  |-> IF f.kind = "no_line" THEN RawKeys \ {f.what} ELSE RawKeys,
     number |-> [key \in RawKeys |->
                   IF f.kind = "zero" /\ f.what = key THEN 0 ELSE number[key]]]

Start(tl, tp, mode, e) ==
    /\ trace_list = tl
    /\ trace_processes = tp
    /\ cmdl_scaling = mode
    /\ env = e
    /\ raw_data = create_raw_data(tl)
    /\ mod_factors = create_mod_factors(tl)
    /\ scaling = ""
    /\ divisions = 0
    /\ pc = "gather"
    /\ idx = 1
    /\ err = NoError
    /\ cmdl_args = [trace_list |-> tl, project |-> FALSE]
    /\ row = tp
    /\ csv_file = NoFile
    /\ gp_file = NoScript
    /\ fit = NoFit
    /\ out = <<>>

\* campaigns whose runs differ in their instruction counts
InitInstructions ==
    \E n \in 1..MaxRuns, ladder \in Ladders, mode \in Modes :
      \E ins \in [1..n -> InsValues] :
        Start([i \in 1..n |-> i], [i \in 1..n |-> ladder[i]], mode,
              [i \in 1..n |-> GoodEnv([Base(i) EXCEPT !["useful_ins"] = ins[i]])])

\* the measured campaign with at most one fault
InitFaults ==
    \E n \in 1..MaxRuns, mode \in Modes :
      \/ Start([i \in 1..n |-> i], [i \in 1..n |-> Measured[i]], mode,
               [i \in 1..n |-> GoodEnv(Base(i))])
      \/ \E t \in 1..n, f \in Faults :
           Start([i \in 1..n |-> i], [i \in 1..n |-> Measured[i]], mode,
                 [i \in 1..n |-> IF i = t THEN FaultyEnv(Base(i), f)
                                          ELSE GoodEnv(Base(i))])

Init == InitInstructions \/ InitFaults

Spec == Init /\ [][Next]_vars

\* the classifier on campaigns that differ in their instruction counts
SpecInstructions == InitInstructions /\ [][Next]_vars

\* the three stages on the measured campaign with at most one fault
SpecFaults == InitFaults /\ [][Next]_vars


(***************************************************************************)
(* The stages of the main control flow around the three above: the traces  *)
(* taken from the command line, the table and the csv file of the factors, *)
(* the csv file read in projection-only mode, and the projection.          *)
(***************************************************************************)
Say(msg) == [msg |-> msg, table |-> <<>>]

\* get_traces_from_args
GotTraces(tl) ==
    IF tl = <<>>
    THEN /\ out' = Append(out, Say("==Error== could not find any traces matching"))
         /\ pc' = "exit1"
         /\ UNCHANGED <<trace_list, trace_processes, raw_data, mod_factors>>
    ELSE /\ trace_list' = tl
         /\ trace_processes' = [t \in Range(tl) |-> row[t]]
         /\ raw_data' = create_raw_data(tl)
         /\ mod_factors' = create_mod_factors(tl)
         /\ pc' = "gather"
         /\ out' = out
GetTracesFromArgs ==
    /\ pc = "args"
    /\ GotTraces(TracesOfArgs(cmdl_args.trace_list, row))
    /\ UNCHANGED <<cmdl_scaling, env, scaling, divisions, idx, err,
                   cmdl_args, row, csv_file, gp_file, fit>>

\* the lines of print_mod_factors_table: values with two decimals, followed
\* by % but for speedup, ipc and freq
TableLine(key, table, tl) ==
    [label |-> key, percent |-> key \notin {"speedup", "ipc", "freq"},
     cells |-> [i \in 1..Len(tl) |-> FormatCell(table[tl[i]], 2)]]
print_mod_factors_table(mf, tl, tp) ==
    [msg |-> "Overview of the computed model factors:",
     table |-> [header |-> [i \in 1..Len(tl) |-> tp[tl[i]]],
                lines |-> [k \in 1..Len(mod_factors_doc) |->
                             TableLine(mod_factors_doc[k], mf[mod_factors_doc[k]], tl)]]]

PrintModFactorsTable ==
    /\ pc = "computed"
    /\ out' = Append(out, print_mod_factors_table(mod_factors, trace_list, trace_processes))
    /\ pc' = "table"
    /\ UNCHANGED <<inputs, raw_data, mod_factors, scaling, divisions, idx, err,
                   cmdl_args, row, csv_file, gp_file, fit>>

PrintModFactorsCsv ==
    /\ pc = "table"
    /\ csv_file' = print_mod_factors_csv(mod_factors, trace_list, trace_processes, raw_data)
    /\ out' = Append(out, Say("Model factors written to modelfactors.csv"))
    /\ pc' = "modules"
    /\ UNCHANGED <<inputs, raw_data, mod_factors, scaling, divisions, idx, err,
                   cmdl_args, row, gp_file, fit>>

\* read_mod_factors_csv
ReadModFactorsCsv ==
    /\ pc = "read"
    /\ IF ~csv_file.valid
       THEN /\ out' = Append(out, Say("==ERROR== is not a valid csv file."))
            /\ pc' = "exit1"
            /\ UNCHANGED <<trace_list, trace_processes, mod_factors>>
       ELSE /\ trace_list' = CsvTraceList(csv_file)
            /\ trace_processes' = CsvTraceProcesses(csv_file)
            /\ mod_factors' = CsvModFactors(csv_file, CsvTraceList(csv_file))
            /\ pc' = "modules"
            /\ out' = out
    /\ UNCHANGED <<cmdl_scaling, env, raw_data, scaling, divisions, idx, err,
                   cmdl_args, row, csv_file, gp_file, fit>>

\* the check of the main control flow that NumPy and SciPy were imported
CheckModules ==
    /\ pc = "modules"
    /\ \E imported \in BOOLEAN :
         IF imported
         THEN pc' = "projection" /\ out' = out
         ELSE /\ out' = Append(out, Say("Scipy or NumPy module not available. Skipping projection."))
              /\ pc' = "exit1"
    /\ UNCHANGED <<inputs, raw_data, mod_factors, scaling, divisions, idx, err,
                   cmdl_args, row, csv_file, gp_file, fit>>

\* compute_projection from the outcome r of the fits on; from: the text
\* str(x_proc[0]); data: the data points
Projected(model, limit, r, from, data) ==
    /\ fit' = r
    /\ gp_file' = PlotScript(gp_file, r,
                             GpScript(limit, GpFunctions(model, from, r.opt), data))
    /\ out' = IF r.exc = "TypeError"
              THEN Append(out, Say("==Error== Projection failed! The script requires SciPy 0.17.0 or newer."))
              ELSE IF r.exc = ""
              THEN Append(out, Say("Projection written to modelfactors.gp"))
              ELSE out
    /\ pc' = IF r.exc \in {"", "TypeError"} THEN "exit0" ELSE "aborted"
    /\ err' = IF r.exc \in {"", "TypeError"} THEN err
              ELSE [exc |-> r.exc, raised_in |-> "compute_projection"]

\* the values of --bounds, --sigma and --limit explored
Options ==
    {[bounds |-> "yes", sigma |-> "first",    limit |-> Word("None")],
     [bounds |-> "no",  sigma |-> "equal",    limit |-> Literal(64, 0)],
     [bounds |-> "yes", sigma |-> "decrease", limit |-> Word("None")]}

\* compute_projection from the arrays on
Fitting(x_proc, y, from, data) ==
    \E model \in Models, o \in Options :
       IF SigmaRaises(o.sigma, Len(x_proc))
       THEN Projected(model, o.limit, [NoFit EXCEPT !.exc = "IndexError"], from, data)
       ELSE \E r \in curve_fit(model, x_proc, y, SigmaOf(o.sigma, Len(x_proc)), o.bounds) :
              Projected(model, o.limit, Indexed(r, Len(x_proc)), from, data)

ComputeProjection ==
    /\ pc = "projection"
    /\ Fitting(XProc(trace_list, trace_processes), YOf(mod_factors, trace_list),
               str_float(IntToF(trace_processes[trace_list[1]])),
               GpData(XProc(trace_list, trace_processes), YOf(mod_factors, trace_list)))
    /\ UNCHANGED <<inputs, raw_data, mod_factors, scaling, divisions, idx,
                   cmdl_args, row, csv_file>>

\* The program started again with --project on the csv file of a run that
\* skipped the projection.  What the ended run held stays in the variables
\* until read_mod_factors_csv replaces it.
ProjectOnly ==
    /\ pc = "exit1"
    /\ ~cmdl_args.project
    /\ csv_file.valid
    /\ cmdl_args' = [cmdl_args EXCEPT !.project = TRUE]
    /\ pc' = "read"
    /\ out' = <<>>
    /\ UNCHANGED <<inputs, raw_data, mod_factors, scaling, divisions, idx, err,
                   row, csv_file, gp_file, fit>>

NextMain ==
    \/ GetTracesFromArgs
    \/ GatherRawData
    \/ GetScalingType
    \/ ComputeModelFactors
    \/ PrintModFactorsTable
    \/ PrintModFactorsCsv
    \/ ReadModFactorsCsv
    \/ CheckModules
    \/ ComputeProjection
    \/ ProjectOnly

(***************************************************************************)
(* The invocations explored.  With traces: the arguments are up to MaxRuns *)
(* traces, in ascending or in descending order of their process counts,    *)
(* among them two of the same count, and two files that are no traces; one *)
(* run at most has a fault in its acquisition.  With --project: a csv file *)
(* whose header is not in ascending order, one whose header has no process *)
(* count, and a path that is no csv file.                                  *)
(***************************************************************************)
Counts == <<2, 4, 4, 8, 16>>
Reverse(s) == [i \in 1..Len(s) |-> s[Len(s) + 1 - i]]
ArgLists(n) ==
    {[i \in 1..n |-> Name(i, "prv")] \o <<Name(1, "sim.prv"), Name(0, "txt")>>,
     <<Name(0, "txt"), Name(1, "sim.prv")>> \o Reverse([i \in 1..n |-> Name(i, "prv")])}
MainFaults ==
    {[kind |-> "no_file", what |-> "instructions"], [kind |-> "no_file", what |-> "runtime"],
     [kind |-> "zero", what |-> "useful_max"]}
\* a script an earlier run left in the working directory
OldScript ==
    [exists |-> TRUE, xrange |-> <<Literal(1, 0), DefaultLimit>>,
     functions |-> GpFunctions("linear", Literal(10, 1), DefaultOpt), data |-> <<>>]
Scripts == {NoScript, OldScript}

StartMain(args, rows, e, project, file, script) ==
    /\ trace_list = <<>>
    /\ trace_processes = <<>>
    /\ cmdl_scaling = "auto"
    /\ env = e
    /\ raw_data = create_raw_data(<<>>)
    /\ mod_factors = create_mod_factors(<<>>)
    /\ scaling = ""
    /\ divisions = 0
    /\ pc = IF project THEN "read" ELSE "args"
    /\ idx = 1
    /\ err = NoError
    /\ cmdl_args = [trace_list |-> args, project |-> project]
    /\ row = rows
    /\ csv_file = file
    /\ gp_file = script
    /\ fit = NoFit
    /\ out = <<>>

Traces(n) == {Name(i, "prv") : i \in 1..n}
InitTraces ==
    \E n \in 0..MaxRuns, script \in Scripts :
      \E args \in ArgLists(n) :
        \/ StartMain(args, [t \in Traces(n) |-> Counts[t.stem]],
                     [t \in Traces(n) |-> GoodEnv(Base(t.stem))], FALSE, NoFile, script)
        \/ \E x \in Traces(n), f \in MainFaults :
             StartMain(args, [t \in Traces(n) |-> Counts[t.stem]],
                       [t \in Traces(n) |-> IF t = x THEN FaultyEnv(Base(t.stem), f)
                                                     ELSE GoodEnv(Base(t.stem))],
                       FALSE, NoFile, script)

\* a csv file with the given header and a number in every cell
UserCsv(header) ==
    [valid   |-> TRUE,
     header  |-> header,
     factors |-> [k \in 1..Len(mod_factors_doc) |->
                    [label |-> mod_factors_doc[k],
                     cells |-> [i \in 1..Len(header) |-> Literal(90000000 + 1000000 * i, 6)]]],
     raw     |-> <<>>]
UserFiles == {UserCsv(<<4, 2>>), UserCsv(<<2, 4>>), UserCsv(<<>>), NoFile}
InitProject ==
    \E file \in UserFiles, script \in Scripts :
        StartMain(<<>>, <<>>, <<>>, TRUE, file, script)

InitMain == InitTraces \/ InitProject

\* the main control flow on both entry paths
SpecMain == InitMain /\ [][NextMain]_vars

\* modelfactors.py --project <csv file>
NextProject ==
    \/ ReadModFactorsCsv
    \/ CheckModules
    \/ ComputeProjection
SpecProject == InitProject /\ [][NextProject]_vars
(***************************************************************************)
(* Vocabulary of the properties.                                           *)
(***************************************************************************)
\* a value that is no finite number: the string 'NaN' or the float nan
Missing(v) == v.t \in {"str", "nan"}
Runs == Len(trace_list)
RefTrace == trace_list[1]
Classified == pc \in {"factors", "computed"}
\* the loop of gather_raw_data is past the i-th trace
Gathered(i) ==
    \/ pc \in {"classify", "factors", "computed"}
    \/ pc = "gather" /\ i < idx
    \/ pc = "aborted" /\ (err.raised_in = "get_scaling_type" \/ i < idx)
\* the loop of compute_model_factors is past the i-th trace
Computed(i) == pc = "computed" \/ (pc = "factors" /\ i < idx)

\* C1: in a forced scaling mode m (weak or strong) get_scaling_type returns
\* m for every campaign of one or more runs, campaigns of exactly one run
\* included.
C1_ForcedModeReturned ==
    cmdl_scaling \in {"weak", "strong"} =>
        /\ err.raised_in # "get_scaling_type"
        /\ Classified => scaling = cmdl_scaling

\* C2: for a campaign of exactly one run get_scaling_type returns strong,
\* whether the instruction count of the run is a number, zero or missing,
\* and performs no division.
C2_OneRunStrong ==
    Runs = 1 =>
        /\ err.raised_in # "get_scaling_type"
        /\ Classified => scaling = "strong" /\ divisions = 0

\* one run whose instruction count is missing, in a forced weak mode
C2_Witness ==
    /\ Runs = 1
    /\ Classified
    /\ raw_data["useful_ins"][RefTrace] = NaNStr
    /\ cmdl_scaling = "weak"
    /\ scaling = "strong"

\* the process counts of the campaign grow strictly
StrictlyIncreasing ==
    \A i \in 1..(Runs - 1) :
        trace_processes[trace_list[i]] < trace_processes[trace_list[i + 1]]

\* every run has the instruction count of the reference run, which is not zero
ConstantInstructions ==
    /\ IsNum(raw_data["useful_ins"][RefTrace])
    /\ ~IsZero(raw_data["useful_ins"][RefTrace])
    /\ \A t \in Range(trace_list) :
          raw_data["useful_ins"][t] = raw_data["useful_ins"][RefTrace]

\* C3: in auto mode a campaign of two or more runs with strictly increasing
\* process counts and the same non-zero instruction count in every run is
\* classified as strong.
C3_ConstantIsStrong ==
    (Classified /\ cmdl_scaling = "auto" /\ Runs >= 2
       /\ StrictlyIncreasing /\ ConstantInstructions) => scaling = "strong"

(***************************************************************************)
(* The exact value of the classifier's average, in whole numbers.  With I  *)
(* the instruction counts and P the process counts, inst_ratio/proc_ratio  *)
(* of run i is I[i]*P[1] / (I[1]*P[i]); all of them are brought to the     *)
(* denominator I[1] * P[1] * ... * P[n].                                   *)
(***************************************************************************)
WholeIns(i) == CHOOSE k \in InsValues : IntToF(k) = raw_data["useful_ins"][trace_list[i]]
Procs(i) == trace_processes[trace_list[i]]
RECURSIVE ProcProduct(_)
ProcProduct(i) == IF i = 0 THEN 1 ELSE Procs(i) * ProcProduct(i - 1)
ExactDenominator == WholeIns(1) * ProcProduct(Runs)
RECURSIVE ExactSum(_)
ExactSum(i) ==
    IF i = 0 THEN 0
    ELSE WholeIns(i) * Procs(1) * (ProcProduct(Runs) \div Procs(i)) + ExactSum(i - 1)
\* (sum - 1) / (n - 1) compared with 9/10, both sides times 10 * (n - 1) * denominator
ExactAbove == 10 * (ExactSum(Runs) - ExactDenominator) > 9 * (Runs - 1) * ExactDenominator
ExactBelow == 10 * (ExactSum(Runs) - ExactDenominator) < 9 * (Runs - 1) * ExactDenominator
ClassifiedAuto ==
    /\ Classified
    /\ cmdl_scaling = "auto"
    /\ Runs >= 2
    /\ \A t \in Range(trace_list) :
          raw_data["useful_ins"][t] \in {IntToF(k) : k \in InsValues}

Holds(v, miss, val) == IF miss THEN Missing(v) ELSE v = val
\* a missing input or a zero denominator of the division num / den
Fault(num, den) == Missing(num) \/ Missing(den) \/ IsZero(den)
\* the factor of the weak-scaling formulas
Weak(x, t) ==
    IF scaling = "strong" THEN x
    ELSE PyMul(x, PyDiv(IntToF(trace_processes[t]), IntToF(trace_processes[RefTrace])))

FactorsOfRun(t) ==
    LET avg == raw_data["useful_avg"][t]
        max == raw_data["useful_max"][t]
        tot == raw_data["useful_tot"][t]
        dim == raw_data["useful_dim"][t]
        ins == raw_data["useful_ins"][t]
        cyc == raw_data["useful_cyc"][t]
        rt  == raw_data["runtime"][t]
        rtd == raw_data["runtime_dim"][t]
        tot0 == raw_data["useful_tot"][RefTrace]
        ins0 == raw_data["useful_ins"][RefTrace]
        rt0  == raw_data["runtime"][RefTrace]
        mf == [key \in ModKeys |-> mod_factors[key][t]]
        ipc0  == mod_factors["ipc"][RefTrace]
        freq0 == mod_factors["freq"][RefTrace]
    IN /\ Holds(mf["load_balance"], Fault(avg, max), PyMul(PyDiv(avg, max), F100))
       /\ Holds(mf["comm_eff"], Fault(max, rt), PyMul(PyDiv(max, rt), F100))
       /\ Holds(mf["serial_eff"], Fault(dim, rtd), PyMul(PyDiv(dim, rtd), F100))
       /\ Holds(mf["transfer_eff"], Fault(mf["comm_eff"], mf["serial_eff"]),
                PyMul(PyDiv(mf["comm_eff"], mf["serial_eff"]), F100))
       /\ Holds(mf["parallel_eff"],
                Missing(mf["load_balance"]) \/ Missing(mf["comm_eff"]),
                PyDiv(PyMul(mf["load_balance"], mf["comm_eff"]), F100))
       /\ Holds(mf["comp_scale"], Fault(tot0, tot),
                PyMul(Weak(PyDiv(tot0, tot), t), F100))
       /\ Holds(mf["global_eff"],
                Missing(mf["parallel_eff"]) \/ Missing(mf["comp_scale"]),
                PyDiv(PyMul(mf["parallel_eff"], mf["comp_scale"]), F100))
       /\ Holds(mf["ipc"], Fault(ins, cyc), PyDiv(ins, cyc))
       /\ Holds(mf["ipc_scale"], Fault(mf["ipc"], ipc0),
                PyMul(PyDiv(mf["ipc"], ipc0), F100))
       /\ Holds(mf["freq"], Fault(cyc, tot), PyDiv(PyDiv(cyc, tot), F1000))
       /\ Holds(mf["freq_scale"], Fault(mf["freq"], freq0),
                PyMul(PyDiv(mf["freq"], freq0), F100))
       /\ Holds(mf["inst_scale"], Fault(ins0, ins),
                PyMul(Weak(PyDiv(ins0, ins), t), F100))
       /\ Holds(mf["speedup"], Fault(rt0, rt), Weak(PyDiv(rt0, rt), t))

\* C5: after compute_model_factors each of the thirteen factors of each run
\* is missing if and only if one of its direct inputs is missing or the
\* denominator of its division is zero, and holds the value of its formula
\* otherwise.
C5_MissingIffFault ==
    pc = "computed" => \A t \in Range(trace_list) : FactorsOfRun(t)

\* a run whose maximum useful duration is zero: load_balance is missing and
\* comm_eff, whose numerator it is, is the number zero
C5_Witness ==
    /\ pc = "computed"
    /\ \E t \in Range(trace_list) :
          /\ IsZero(raw_data["useful_max"][t])
          /\ mod_factors["load_balance"][t] = NaNStr
          /\ IsZero(mod_factors["comm_eff"][t])
          /\ IsNum(mod_factors["ipc"][t]) /\ ~IsZero(mod_factors["ipc"][t])

CycleFactors == {"ipc", "ipc_scale", "freq", "freq_scale"}
\* the table compute_model_factors returns when useful_cyc of trace t is v
WithCycles(t, v) ==
    ModFactorsLoop([raw_data EXCEPT !["useful_cyc"][t] = v], trace_list,
                   trace_processes, scaling, Runs)

\* C6: if useful_cyc of a run other than the reference is missing, ipc,
\* ipc_scale, freq and freq_scale of that run are missing, and every other
\* factor of that run and every factor of every other run has the value it
\* would have with useful_cyc present.
C6_CyclesMissing ==
    pc = "computed" =>
      \A i \in 2..Runs :
        LET t == trace_list[i]
            present == WithCycles(t, IntToF(Base(i).useful_cyc))
        IN raw_data["useful_cyc"][t] = NaNStr =>
             /\ \A key \in CycleFactors : Missing(mod_factors[key][t])
             /\ \A key \in ModKeys \ CycleFactors :
                   mod_factors[key][t] = present[key][t]
             /\ \A key \in ModKeys, u \in Range(trace_list) \ {t} :
                   mod_factors[key][u] = present[key][u]

\* the cycles file of the second run is missing; its other factors are numbers
C6_Witness ==
    /\ pc = "computed"
    /\ Runs >= 2
    /\ raw_data["useful_cyc"][trace_list[2]] = NaNStr
    /\ Missing(mod_factors["ipc"][trace_list[2]])
    /\ IsNum(mod_factors["load_balance"][trace_list[2]])
    /\ IsNum(mod_factors["ipc_scale"][RefTrace])

\* C7: if ipc (freq) of the reference run is missing or zero, ipc_scale
\* (freq_scale) is missing for every run, also for runs whose own counters
\* are present; the reference's ipc and freq are computed before any scale
\* factor reads them, so this holds for each run as soon as it is computed.
C7_ReferencePoisons ==
    \A i \in 1..Runs :
      Computed(i) =>
        LET t == trace_list[i]
            Poisoned(key) == Missing(mod_factors[key][RefTrace])
                             \/ IsZero(mod_factors[key][RefTrace])
        IN /\ Poisoned("ipc") => Missing(mod_factors["ipc_scale"][t])
           /\ Poisoned("freq") => Missing(mod_factors["freq_scale"][t])

\* the reference run counted zero cycles: its freq is zero, and freq_scale
\* of a second run whose counters are all numbers is missing
C7_Witness ==
    /\ pc = "computed"
    /\ Runs >= 2
    /\ IsZero(mod_factors["freq"][RefTrace])
    /\ \A key \in RawKeys : IsNum(raw_data[key][trace_list[2]])
    /\ IsNum(mod_factors["freq"][trace_list[2]])
    /\ mod_factors["freq_scale"][trace_list[2]] = NaNStr

\* C8: for every assignment of finite numbers, zeros and missing markers to
\* the raw counters, compute_model_factors (which calls get_scaling_type)
\* completes and yields a value or the missing marker for every factor of
\* every run; no counter of one run aborts the campaign.
C8_FactorStageCompletes ==
    /\ err.raised_in # "get_scaling_type"
    /\ pc = "computed" =>
          \A key \in ModKeys, t \in Range(trace_list) :
              IsNum(mod_factors[key][t]) \/ Missing(mod_factors[key][t])

\* the acquisition of the raw field key failed in environment e
AcquisitionFailed(e, key) ==
    \/ ~e.dim
    \/ ~e.sim /\ key \in {"useful_dim", "runtime_dim"}
    \/ FileOf[key] \notin e.files

\* C9: if an acquisition step of one run fails (no .dim file, no simulated
\* trace, or a stats file missing) the affected raw fields of the run are
\* set to the missing marker and the loop goes on with the other runs; it
\* never aborts the campaign.
C9_AcquisitionFailureIsLocal ==
    /\ err.raised_in # "gather_raw_data"
    /\ \A i \in 1..Runs, key \in RawKeys :
          (Gathered(i) /\ AcquisitionFailed(env[trace_list[i]], key))
              => raw_data[key][trace_list[i]] = NaNStr

\* C10: after gather_raw_data every raw field of every run is the number
\* read from its stats file or the missing marker; a field that could not
\* be read (file absent, or its line absent from the file) is never zero.
C10_ReadOrMissing ==
    \A i \in 1..Runs, key \in RawKeys :
      Gathered(i) =>
        LET t == trace_list[i]
            e == env[t]
        IN \/ raw_data[key][t] = NaNStr
           \/ /\ FileOf[key] \in e.files
              /\ key \in e.lines
              /\ raw_data[key][t] = IntToF(e.number[key])


(***************************************************************************)
(* The formulas of the factors, written from the raw counters of the run   *)
(* and of the reference run alone.                                         *)
(***************************************************************************)
\* every counter of run t is a number other than zero
AllPresent(t) == \A key \in RawKeys : IsNum(raw_data[key][t]) /\ ~IsZero(raw_data[key][t])
Percent(num, den) == FMul(FDiv(num, den), F100)
Product(a, b) == FDiv(FMul(a, b), F100)
\* the ratio x of the reference to the run, times proc_ratio under weak scaling
Ratio(x, t) ==
    IF scaling = "weak"
    THEN FMul(x, FDiv(IntToF(trace_processes[t]), IntToF(trace_processes[RefTrace])))
    ELSE x
CountersOf(t) == [key \in RawKeys |-> raw_data[key][t]]
\* the factors computed from the counters r of run t and r0 of the reference
FromCounters(r, r0, t) ==
    [load_balance |-> Percent(r["useful_avg"], r["useful_max"]),
     comm_eff     |-> Percent(r["useful_max"], r["runtime"]),
     serial_eff   |-> Percent(r["useful_dim"], r["runtime_dim"]),
     comp_scale   |-> FMul(Ratio(FDiv(r0["useful_tot"], r["useful_tot"]), t), F100),
     ipc          |-> FDiv(r["useful_ins"], r["useful_cyc"]),
     ipc_ref      |-> FDiv(r0["useful_ins"], r0["useful_cyc"]),
     freq         |-> FDiv(FDiv(r["useful_cyc"], r["useful_tot"]), F1000),
     freq_ref     |-> FDiv(FDiv(r0["useful_cyc"], r0["useful_tot"]), F1000),
     inst_scale   |-> FMul(Ratio(FDiv(r0["useful_ins"], r["useful_ins"]), t), F100),
     speedup      |-> Ratio(FDiv(r0["runtime"], r["runtime"]), t)]
\* the factors computed from the factors c of the same run
FromFactors(c) ==
    [transfer_eff |-> Percent(c.comm_eff, c.serial_eff),
     parallel_eff |-> Product(c.load_balance, c.comm_eff),
     ipc_scale    |-> Percent(c.ipc, c.ipc_ref),
     freq_scale   |-> Percent(c.freq, c.freq_ref)]
FormulaIn(key, c, d) ==
    IF key = "global_eff" THEN Product(d.parallel_eff, c.comp_scale)
    ELSE IF key \in DOMAIN d THEN d[key]
    ELSE c[key]
\* every factor of run t is its formula
FollowsFormulas(t) ==
    \A c \in {FromCounters(CountersOf(t), CountersOf(RefTrace), t)} :
      \A d \in {FromFactors(c)} :
        \A key \in ModKeys : mod_factors[key][t] = FormulaIn(key, c, d)


\* v, rounded to two decimals, is h hundredths
Hundredths(v, h) ==
    /\ IsNum(v)
    /\ FGe(FMul(v, F1000), IntToF(10 * h - 5))
    /\ FGt(IntToF(10 * h + 5), FMul(v, F1000))

\* the measured campaign of two runs, on 1 and 4 processes, without a fault
MeasuredTwoRuns ==
    /\ Runs = 2
    /\ \A i \in 1..2 :
         /\ trace_processes[trace_list[i]] = Measured[i]
         /\ \A key \in RawKeys : raw_data[key][trace_list[i]] = IntToF(Base(i)[key])

MeasuredFactors ==
    [load_balance |-> 9412, comm_eff |-> 28333, serial_eff |-> 32692,
     transfer_eff |-> 8667, parallel_eff |-> 26667, comp_scale |-> 10588,
     global_eff |-> 28235, ipc |-> 50, ipc_scale |-> 10000,
     inst_scale |-> 9524, speedup |-> 333]

\* C11: after compute_model_factors, every run whose counters and whose
\* reference's counters are all present and non-zero has each of the
\* thirteen factors equal to its formula, the later factors (transfer_eff,
\* parallel_eff, global_eff, ipc_scale, freq_scale) being the formula applied
\* to the earlier factors of the same run; in the measured strong-scaling
\* campaign on 1 and 4 processes the run on 4 processes has, to two
\* decimals, load_balance 94.12, comm_eff 283.33, serial_eff 326.92,
\* transfer_eff 86.67, parallel_eff 266.67, comp_scale 105.88, global_eff
\* 282.35, ipc 0.50, ipc_scale 100.00, inst_scale 95.24 and speedup 3.33.
C11_FactorsFollowFormulas ==
    pc = "computed" =>
        /\ \A t \in Range(trace_list) :
             AllPresent(t) /\ AllPresent(RefTrace) =>
                FollowsFormulas(t)
        /\ MeasuredTwoRuns /\ scaling = "strong" =>
                \A key \in DOMAIN MeasuredFactors :
                    Hundredths(mod_factors[key][trace_list[2]], MeasuredFactors[key])

\* the measured campaign of two runs, classified strong, with its factors
C11_Witness ==
    /\ pc = "computed"
    /\ MeasuredTwoRuns
    /\ cmdl_scaling = "auto"
    /\ scaling = "strong"
    /\ Hundredths(mod_factors["transfer_eff"][trace_list[2]], 8667)

\* the ratio v of the input x of the reference run to itself
SelfRatio(v, x, one) ==
    IF Missing(x) \/ IsZero(x) THEN Missing(v) ELSE v = one

\* C12: for the reference run proc_ratio is exactly 1 and, under weak and
\* under strong scaling, speedup, comp_scale, inst_scale, ipc_scale and
\* freq_scale are the ratio of the reference's input to itself: 1 for
\* speedup and 100 for the four scale factors when that input is present
\* and non-zero, missing when it is missing or zero.
C12_ReferenceSelfRatio ==
    Computed(1) =>
        /\ ProcRatio(trace_processes, RefTrace, RefTrace) = F1
        /\ SelfRatio(mod_factors["speedup"][RefTrace], raw_data["runtime"][RefTrace], F1)
        /\ SelfRatio(mod_factors["comp_scale"][RefTrace],
                     raw_data["useful_tot"][RefTrace], F100)
        /\ SelfRatio(mod_factors["inst_scale"][RefTrace],
                     raw_data["useful_ins"][RefTrace], F100)
        /\ SelfRatio(mod_factors["ipc_scale"][RefTrace], mod_factors["ipc"][RefTrace], F100)
        /\ SelfRatio(mod_factors["freq_scale"][RefTrace], mod_factors["freq"][RefTrace], F100)

\* a weak-scaling campaign whose reference run has a runtime but no cycle
\* count: its speedup is 1, its comp_scale 100, its freq_scale missing
C12_Witness ==
    /\ pc = "computed"
    /\ Runs >= 2
    /\ scaling = "weak"
    /\ Missing(raw_data["useful_cyc"][RefTrace])
    /\ mod_factors["speedup"][RefTrace] = F1
    /\ mod_factors["comp_scale"][RefTrace] = F100
    /\ Missing(mod_factors["freq_scale"][RefTrace])

(***************************************************************************)
(* The projection.  How gnuplot evaluates the functions of the script:     *)
(* ( c ) ? a : b evaluates a or b alone, and 1/0 is undefined.             *)
(***************************************************************************)
Undefined == Tag("undefined")
GnuplotFitted(fn, x, x0, f) ==
    CASE fn.model = "amdahl" ->
            \* x0 / ( f + ( 1 - f ) * x )
            Apply(FDiv, x0, Apply(FAdd, f, Apply(FMul, Apply(FSub, F1, f), x)))
      [] fn.model = "pipe" ->
            \* x0 * x / ( ( 1 - f ) + f * ( 2 * x - 1 ) )
            Apply(FDiv, Apply(FMul, x0, x),
                  Apply(FAdd, Apply(FSub, F1, f),
                        Apply(FMul, f, Apply(FSub, Apply(FMul, F2, x), F1))))
      [] fn.model = "linear" ->
            \* x0 + x * f
            Apply(FAdd, x0, Apply(FMul, x, f))
GnuplotProduct(a, b) ==
    IF a = Undefined \/ b = Undefined THEN Undefined
    ELSE Apply(FDiv, Apply(FMul, a, b), F100)
\* the functions as gnuplot holds them once the script is read: the
\* numbers of the formulas converted from their texts
GnuplotRead(functions) ==
    [name \in DOMAIN functions |->
        IF functions[name].kind = "fitted"
        THEN [kind |-> "fitted", model |-> functions[name].model,
              from |-> float(functions[name].from),
              x0 |-> float(functions[name].x0), f |-> float(functions[name].f)]
        ELSE [kind |-> "product", left |-> functions[name].left,
              right |-> functions[name].right]]
RECURSIVE Gnuplot(_, _, _)
Gnuplot(read, name, x) ==
    IF read[name].kind = "fitted"
    THEN IF FGt(x, read[name].from)
         THEN GnuplotFitted(read[name], x, read[name].x0, read[name].f)
         ELSE Undefined
    ELSE GnuplotProduct(Gnuplot(read, read[name].left, x),
                        Gnuplot(read, read[name].right, x))

\* compute_projection wrote the script from its five fits
ScriptWritten == pc = "exit0" /\ fit.exc = "" /\ fit.done = Len(Fits)
\* compute_projection was entered and is left
ProjectionEnded == pc \in {"exit0", "aborted"} /\ fit # NoFit
FailureReported ==
    \/ \E i \in 1..Len(out) : out[i].msg = "==Error== Projection failed! The script requires SciPy 0.17.0 or newer."
    \/ err.raised_in = "compute_projection"

\* C13: for each of the models amdahl, pipe and linear the script defines
\* para( x ) as load( x ) * comm( x ) / 100 and glob( x ) as
\* para( x ) * comp( x ) / 100, and its five functions are those obtained
\* from the fitted parameters of load_balance, comm_eff and comp_scale
\* whatever the fitted parameters of parallel_eff and global_eff are.
C13_ParaAndGlobComposed ==
    ScriptWritten =>
        /\ gp_file.functions["para"] = Composed("load", "comm")
        /\ gp_file.functions["glob"] = Composed("para", "comp")
        /\ \A p \in FitParams, q \in FitParams :
              gp_file.functions =
                 GpFunctions(gp_file.functions["load"].model, gp_file.functions["load"].from,
                             [fit.opt EXCEPT !["para"] = p, !["glob"] = q])

\* a script of the pipe model whose fit of parallel_eff gave other
\* parameters than its fit of load_balance
C13_Witness ==
    /\ ScriptWritten
    /\ gp_file.functions["load"].model = "pipe"
    /\ fit.opt["para"] # fit.opt["load"]
    /\ fit.opt["para"] # fit.opt["comm"]
    /\ gp_file.functions["para"].kind = "product"

\* the process count of the first run, and the values of x looked at
FirstCount == trace_processes[trace_list[1]]
Abscissae(limit) == {IntToF(FirstCount - 1), IntToF(FirstCount), IntToF(FirstCount + 1),
                     float(limit)}
FittedValue(name, x) == ModelValue(gp_file.functions[name].model, x, fit.opt[name])

\* at x the five functions held by gnuplot have the values of the fitted
\* models vl, vm, vc of load, comm and comp and of their products if
\* defined, and are undefined otherwise
Agrees(read, x, defined, vl, vm, vc) ==
    /\ Gnuplot(read, "load", x) = (IF defined THEN vl ELSE Undefined)
    /\ Gnuplot(read, "comm", x) = (IF defined THEN vm ELSE Undefined)
    /\ Gnuplot(read, "comp", x) = (IF defined THEN vc ELSE Undefined)
    /\ Gnuplot(read, "para", x) =
          (IF defined THEN GnuplotProduct(vl, vm) ELSE Undefined)
    /\ Gnuplot(read, "glob", x) =
          (IF defined THEN GnuplotProduct(GnuplotProduct(vl, vm), vc) ELSE Undefined)

\* C14: each function of the script evaluates to the value of the fitted
\* model for every x from P[ref] to the limit, x = P[ref] included, and is
\* undefined (1/0) for every x below P[ref].
C14_DefinedFromReference ==
    ScriptWritten =>
        \A read \in {GnuplotRead(gp_file.functions)} :
            \A x \in Abscissae(gp_file.xrange[2]) :
                Agrees(read, x, FGe(x, IntToF(FirstCount)),
                       FittedValue("load", x), FittedValue("comm", x),
                       FittedValue("comp", x))

\* C14 as the program has it: each function of the script evaluates to the
\* value of the fitted model for every x above P[ref] up to the limit, and
\* is undefined (1/0) for every x below P[ref] and for x = P[ref].
C14_DefinedAboveReference ==
    ScriptWritten =>
        \A read \in {GnuplotRead(gp_file.functions)} :
            \A x \in Abscissae(gp_file.xrange[2]) :
                Agrees(read, x, FGt(x, IntToF(FirstCount)),
                       FittedValue("load", x), FittedValue("comm", x),
                       FittedValue("comp", x))

\* a script of the amdahl model of a campaign of two runs or more, whose
\* fit of comp_scale gave other parameters than its fit of load_balance
C14_Witness ==
    /\ ScriptWritten
    /\ Runs >= 2
    /\ gp_file.functions["load"].model = "amdahl"
    /\ fit.opt["comp"] # fit.opt["load"]
    /\ Gnuplot(GnuplotRead(gp_file.functions), "glob", IntToF(FirstCount)) = Undefined
    /\ Gnuplot(GnuplotRead(gp_file.functions), "glob", IntToF(FirstCount + 1)) # Undefined

\* C15: for every campaign of fewer than two runs, every model, bounds flag
\* and sigma scheme, compute_projection fails: the failure is reported and
\* no script with fitted formulas is written.
C15_TooFewRunsFail ==
    Runs < 2 /\ ProjectionEnded =>
        /\ fit.exc # ""
        /\ FailureReported
        /\ gp_file \in Scripts

\* C16: if one of the five fits raises TypeError, compute_projection prints
\* the error and returns; the script is neither written nor changed, no
\* formula of an earlier fit is emitted, and with traces on the command
\* line the table of the factors and modelfactors.csv were written before
\* and stay as they were.
C16_TypeErrorLeavesFiles ==
    [][pc = "projection" /\ fit'.exc = "TypeError" =>
          /\ pc' = "exit0"
          /\ out' = Append(out, Say("==Error== Projection failed! The script requires SciPy 0.17.0 or newer."))
          /\ gp_file' = gp_file
          /\ csv_file' = csv_file
          /\ ~cmdl_args.project =>
                /\ \E i \in 1..Len(out) :
                      out[i] = print_mod_factors_table(mod_factors, trace_list, trace_processes)
                /\ csv_file = print_mod_factors_csv(mod_factors, trace_list,
                                                    trace_processes, raw_data)]_vars

\* with traces on the command line and an earlier script in the directory,
\* the third fit raised TypeError
C16_Witness ==
    /\ pc = "exit0"
    /\ fit.exc = "TypeError"
    /\ fit.done = 2
    /\ ~cmdl_args.project
    /\ csv_file.valid
    /\ gp_file = OldScript

(***************************************************************************)
(* The csv file.                                                           *)
(***************************************************************************)
\* the file holds what print_mod_factors_csv writes for the table held
Exported ==
    csv_file = print_mod_factors_csv(mod_factors, trace_list, trace_processes, raw_data)
\* a and b are both missing, or numbers with the same six decimals
SameToSixDecimals(a, b) ==
    IF Missing(a) THEN Missing(b)
    ELSE IsNum(b) /\ format_f(a, 6) = format_f(b, 6)

\* C17: writing the factors with print_mod_factors_csv and reading the file
\* with read_mod_factors_csv gives the same number of runs, in the same
\* order, with the same process counts, and for every run and each of the
\* thirteen keys a value equal to the original to six decimals, a missing
\* value being read as missing.
C17_RoundTrip ==
    [][pc = "read" /\ Exported =>
          /\ Len(trace_list') = Len(trace_list)
          /\ \A i \in 1..Len(trace_list) :
                /\ trace_processes'[trace_list'[i]] = trace_processes[trace_list[i]]
                /\ \A key \in ModKeys :
                      SameToSixDecimals(mod_factors[key][trace_list[i]],
                                        mod_factors'[key][trace_list'[i]])]_vars

\* C18: in the csv file the thirteen lines of the factors are in the order
\* of the declared keys, and every cell is the value with six decimals or,
\* for every missing value of every factor (ipc, freq and inst_scale of a
\* run without instruction or cycle counter included), the text NaN.
C18_CellsNumberOrNaN ==
    pc = "modules" /\ ~cmdl_args.project =>
        /\ Len(csv_file.factors) = Len(mod_factors_doc)
        /\ \A k \in 1..Len(mod_factors_doc) :
              /\ csv_file.factors[k].label = mod_factors_doc[k]
              /\ \A i \in 1..Len(trace_list) :
                    csv_file.factors[k].cells[i] =
                       IF Missing(mod_factors[mod_factors_doc[k]][trace_list[i]])
                       THEN Word("NaN")
                       ELSE format_f(mod_factors[mod_factors_doc[k]][trace_list[i]], 6)

\* the stages that are handed the list of runs
HandedRuns == pc \in {"gather", "classify", "factors", "computed", "table",
                      "modules", "projection"}
Ascending ==
    \A i \in 1..(Len(trace_list) - 1) :
        trace_processes[trace_list[i]] <= trace_processes[trace_list[i + 1]]

\* C19: with traces on the command line and with --project, the list of
\* runs handed to the classification, the computation of the factors and
\* the projection is in ascending order of process counts, its first run
\* being one of the smallest count.
C19_RunsAscending ==
    HandedRuns => Ascending

\* C20: with traces on the command line and with --project, when there is
\* no run (no argument is a trace, or the header of the csv file has no
\* process count) the program reports the error and exits with a non-zero
\* status before any classification, computation of factors or projection.
C20_NoRunAborts ==
    Len(trace_list) = 0 /\ pc \notin {"args", "read"} =>
        /\ pc = "exit1"
        /\ out # <<>>
        /\ fit = NoFit

(***************************************************************************)
(* The scaling mode in compute_model_factors.                              *)
(***************************************************************************)
\* the table compute_model_factors returns for the raw data held when the
\* mode is the given one
Under(mode) == ModFactorsLoop(raw_data, trace_list, trace_processes, mode, Runs)
OtherMode == IF scaling = "strong" THEN "weak" ELSE "strong"
\* of the table the program computed and the table of the other mode, the
\* one of weak and the one of strong scaling
WeakOf(other) == IF scaling = "strong" THEN other ELSE mod_factors
StrongOf(other) == IF scaling = "strong" THEN mod_factors ELSE other
ScaledKeys == {"comp_scale", "inst_scale", "speedup"}
\* the value under weak scaling is the value under strong scaling times
\* proc_ratio
TimesProcRatio(weak, strong, trace) ==
    IsNum(strong) => weak = PyMul(strong, ProcRatio(trace_processes, RefTrace, trace))

\* C21: the mode get_scaling_type returned is used for every run of the
\* campaign: comparing the factors the program computed with those of the
\* other mode, for every run whose inputs are present comp_scale,
\* inst_scale and speedup under weak scaling are their values under strong
\* scaling multiplied by proc_ratio = P[run] / P[ref], and the other ten
\* factors are the same under weak and strong scaling.
C21_WeakIsStrongTimesRatio ==
    pc = "computed" =>
        \A other \in {Under(OtherMode)} :
            \A i \in 1..Runs :
                /\ \A key \in ScaledKeys :
                      TimesProcRatio(WeakOf(other)[key][trace_list[i]],
                                     StrongOf(other)[key][trace_list[i]], trace_list[i])
                /\ \A key \in ModKeys \ ScaledKeys :
                      WeakOf(other)[key][trace_list[i]] = StrongOf(other)[key][trace_list[i]]

\* a and b differ by no more than 2^-49 of the larger of them, the reach of
\* the roundings of three double-precision operations
Near(a, b) ==
    IF FGe(a, b) THEN FGe([a EXCEPT !.e = @ - 49], FSub(a, b))
    ELSE FGe([b EXCEPT !.e = @ - 49], FSub(b, a))
\* the value under weak scaling is, to rounding, the value under strong
\* scaling times proc_ratio, and is missing where that one is
WithinRounding(weak, strong, trace) ==
    IF IsNum(strong)
    THEN IsNum(weak) /\ Near(weak, PyMul(strong, ProcRatio(trace_processes, RefTrace, trace)))
    ELSE weak = strong
\* the factors that take the mode from comp_scale
FollowingKeys == {"comp_scale", "inst_scale", "global_eff"}

\* C21 as the program has it: the mode get_scaling_type returned is used
\* for every run of the campaign: comparing the factors the program
\* computed with those of the other mode, for every run speedup under weak scaling
\* is exactly speedup under strong scaling multiplied by proc_ratio;
\* comp_scale and inst_scale, and global_eff which is computed from
\* comp_scale, are under weak scaling their values under strong scaling
\* multiplied by proc_ratio to the rounding of double-precision arithmetic
\* (proc_ratio is multiplied in before the factor 100); the other nine
\* factors are the same under weak and strong scaling.
C21_ScaledWithinRounding ==
    pc = "computed" =>
        \A other \in {Under(OtherMode)} :
            \A i \in 1..Runs :
                /\ TimesProcRatio(WeakOf(other)["speedup"][trace_list[i]],
                                  StrongOf(other)["speedup"][trace_list[i]], trace_list[i])
                /\ Missing(StrongOf(other)["speedup"][trace_list[i]])
                      => Missing(WeakOf(other)["speedup"][trace_list[i]])
                /\ \A key \in FollowingKeys :
                      WithinRounding(WeakOf(other)[key][trace_list[i]],
                                     StrongOf(other)[key][trace_list[i]], trace_list[i])
                /\ \A key \in ModKeys \ ({"speedup"} \cup FollowingKeys) :
                      WeakOf(other)[key][trace_list[i]] = StrongOf(other)[key][trace_list[i]]

\* a weak-scaling campaign with P = 5, 6 whose second run has comp_scale one
\* rounding away from the strong value times proc_ratio, and a global_eff
\* that is not the one of strong scaling
C21_Witness ==
    /\ pc = "computed"
    /\ scaling = "weak"
    /\ Runs >= 2
    /\ trace_processes[trace_list[2]] = 6
    /\ trace_processes[RefTrace] = 5
    /\ IsNum(mod_factors["comp_scale"][trace_list[2]])
    /\ mod_factors["comp_scale"][trace_list[2]]
         # PyMul(Under("strong")["comp_scale"][trace_list[2]],
                 ProcRatio(trace_processes, RefTrace, trace_list[2]))
    /\ mod_factors["global_eff"][trace_list[2]] # Under("strong")["global_eff"][trace_list[2]]
====
